---- MODULE Spec2Model ----
(***************************************************************************)
(* Model of l2d/pdal.py (lidar2dems): construction of PDAL pipeline XML,   *)
(* the classify / create_dem / create_dems drivers with their file-name    *)
(* caches, gap_fill and create_chm.                                        *)
(*                                                                         *)
(* Strings that the code compares, sorts or globs are modelled as          *)
(* sequences of ASCII codes, so that sorted() and glob() are computed on   *)
(* the characters, as the code computes them.  None is the string "None".  *)
(***************************************************************************)
EXTENDS Integers, Sequences, FiniteSets, TLC

VARIABLES
    xml,        \* pipeline description built by the last builder run
    cfs,        \* classify: set of files on disk
    clast,      \* classify: record of the last call
    cprev,      \* classify: record of the call before the last one
    dfs,        \* create_dem(s): set of files on disk
    dlast,      \* create_dem(s): record of the last call
    gin,        \* gap_fill: the call's arguments (stack, site)
    gpc,        \* gap_fill: position in the function
    garr,       \* gap_fill: the working buffer arr
    gdisk,      \* gap_fill: content of the output path and of the _clip path
    chm         \* create_chm: inputs and output raster

vars == <<xml, cfs, clast, cprev, dfs, dlast, gin, gpc, garr, gdisk, chm>>

----------------------------------------------------------------------------
(* Bounds *)

MaxLeak == 2        \* temp files left on disk before the model stops leaking more
NCols == 3          \* cells of the one-row rasters given to gap_fill
MaxStack == 2       \* rasters in a gap_fill stack

----------------------------------------------------------------------------
(* Characters and strings *)

Chars(s) ==
    CASE s = "" -> << >>
      [] s = "None" -> << >>
      [] s = "/out/" -> <<47, 111, 117, 116, 47>>
      [] s = "/tmp/tmp" -> <<47, 116, 109, 112, 47, 116, 109, 112>>
      [] s = "site" -> <<115, 105, 116, 101>>
      [] s = "_" -> <<95>>
      [] s = "." -> <<46>>
      [] s = "_r" -> <<95, 114>>
      [] s = "_clip" -> <<95, 99, 108, 105, 112>>
      [] s = "dsm" -> <<100, 115, 109>>
      [] s = "dtm" -> <<100, 116, 109>>
      [] s = "density" -> <<100, 101, 110, 115, 105, 116, 121>>
      [] s = "den" -> <<100, 101, 110>>
      [] s = "max" -> <<109, 97, 120>>
      [] s = "min" -> <<109, 105, 110>>
      [] s = "idw" -> <<105, 100, 119>>
      [] s = "tif" -> <<116, 105, 102>>
      [] s = "vrt" -> <<118, 114, 116>>
      [] s = ".las" -> <<46, 108, 97, 115>>
      [] s = ".xml" -> <<46, 120, 109, 108>>
      [] s = ".json" -> <<46, 106, 115, 111, 110>>
      [] s = "l2d_s" -> <<108, 50, 100, 95, 115>>
      [] s = "c" -> <<99>>
      [] s = "0.56" -> <<48, 46, 53, 54>>
      [] s = "2" -> <<50>>
      [] s = "10" -> <<49, 48>>
      [] s = "1" -> <<49>>
      [] s = "3" -> <<51>>
      [] s = "5" -> <<53>>
      [] s = "-10.0" -> <<45, 49, 48, 46, 48>>
      [] s = "-0.56" -> <<45, 48, 46, 53, 54>>
      [] s = "-1.0" -> <<45, 49, 46, 48>>
      [] s = "-2.0" -> <<45, 50, 46, 48>>
      [] s = "-3.0" -> <<45, 51, 46, 48>>
      [] s = "-5.0" -> <<45, 53, 46, 48>>

\* str(n) of a small non-negative integer
StrOfNat(n) == IF n < 10 THEN <<48 + n>> ELSE <<48 + (n \div 10), 48 + (n % 10)>>

\* s.startswith(p)
IsPrefix(p, s) == Len(p) <= Len(s) /\ SubSeq(s, 1, Len(p)) = p

\* Python's s1 < s2 on strings: the first differing character decides, a
\* proper prefix is smaller
RECURSIVE StrLess(_, _)
StrLess(a, b) ==
    IF b = << >> THEN FALSE
    ELSE IF a = << >> THEN TRUE
    ELSE IF Head(a) # Head(b) THEN Head(a) < Head(b)
    ELSE StrLess(Tail(a), Tail(b))

RECURSIVE Reverse(_)
Reverse(s) == IF s = << >> THEN << >> ELSE Append(Reverse(Tail(s)), Head(s))

Range(s) == {s[i] : i \in DOMAIN s}

\* the texts str() of a float can give for the numbers of the model
FloatTexts == {"-10.0", "-0.56", "-1.0", "-2.0", "-3.0", "-5.0"}

\* the string of a character sequence
Str(cs) == CHOOSE s \in FloatTexts : Chars(s) = cs

\* digits without their leading zeros
RECURSIVE StripZeros(_)
StripZeros(ds) == IF ds # << >> /\ Head(ds) = 48 THEN StripZeros(Tail(ds)) ELSE ds

\* line 147: str(-float(text)) of a decimal text without exponent: the
\* sign flipped, the integer part without leading zeros, and always a
\* fraction, without trailing zeros ('10' gives '-10.0')
str_neg_float(text) ==
    LET cs == Chars(text)
        neg == cs # << >> /\ Head(cs) = 45
        body == IF neg THEN Tail(cs) ELSE cs
        dot == {i \in 1..Len(body) : body[i] = 46}
        d == IF dot = {} THEN Len(body) + 1 ELSE CHOOSE i \in dot : TRUE
        int == StripZeros(SubSeq(body, 1, d - 1))
        frac == Reverse(StripZeros(Reverse(SubSeq(body, d + 1, Len(body)))))
    IN  Str((IF neg THEN << >> ELSE <<45>>)
            \o (IF int = << >> THEN <<48>> ELSE int)
            \o <<46>>
            \o (IF frac = << >> THEN <<48>> ELSE frac))

----------------------------------------------------------------------------
(* File names *)

\* site.Basename() + '_', or '' without a site
SiteBase(site) == IF site = "None" THEN << >> ELSE Chars(site) \o Chars("_")

\* tempfile.mkstemp(suffix=ext) / uuid4() + '.las': the n-th unique name
TmpFile(n, ext) == [t |-> "tmp", n |-> n, ext |-> ext]

\* fouts[o] of create_dem, or the same base under another extension
DemFile(site, demtype, radius, suffix, product, ext) ==
    [t |-> "dem", site |-> site, demtype |-> demtype, radius |-> radius,
     suffix |-> suffix, product |-> product, ext |-> ext]

\* fout of create_dems
GapFile(site, demtype, suffix, product) ==
    [t |-> "gap", site |-> site, demtype |-> demtype, suffix |-> suffix,
     product |-> product]

\* fout of classify
LasFile(site, slope, cellsize, suffix) ==
    [t |-> "las", site |-> site, slope |-> slope, cellsize |-> cellsize,
     suffix |-> suffix]

\* bname of create_dem
DemBase(site, demtype, radius, suffix) ==
    Chars("/out/") \o SiteBase(site) \o Chars(demtype) \o Chars("_r")
        \o Chars(radius) \o Chars(suffix)

\* the characters of a path
Name(p) ==
    CASE p.t = "tmp" -> Chars("/tmp/tmp") \o StrOfNat(p.n) \o Chars(p.ext)
      [] p.t = "dem" -> DemBase(p.site, p.demtype, p.radius, p.suffix)
                            \o Chars(".") \o Chars(p.product) \o Chars(".") \o Chars(p.ext)
      [] p.t = "gap" -> Chars("/out/") \o SiteBase(p.site) \o Chars(p.demtype)
                            \o Chars(p.suffix) \o Chars(".") \o Chars(p.product)
                            \o Chars(".") \o Chars("tif")
      [] p.t = "las" -> Chars("/out/") \o SiteBase(p.site) \o Chars(p.suffix)
                            \o Chars("l2d_s") \o Chars(p.slope) \o Chars("c")
                            \o Chars(p.cellsize) \o Chars(".las")

\* a name mkstemp / uuid4 can return: one no file on disk has
FreshTmp(fsys, ext) ==
    TmpFile(CHOOSE n \in 1..(Cardinality(fsys) + 1) :
                /\ \A p \in fsys : p.t = "tmp" => p.n # n
                /\ \A m \in 1..(n - 1) : \E p \in fsys : p.t = "tmp" /\ p.n = m,
            ext)

\* glob.glob(prefix + '*')
Glob(fsys, prefix) == {p \in fsys : IsPrefix(prefix, Name(p))}

----------------------------------------------------------------------------
(* XML functions.  An element cursor is b = [writer, chain, readers, fs]:  *)
(* chain holds the Filter elements from the Writer inwards (each one the   *)
(* child of the one before), the cursor is the last of them, and fs is the *)
(* disk, which the builders that write JSON side files change.             *)

NoFile == [t |-> "none", n |-> 0, ext |-> ""]

Stage(type, dim, opts, file) == [type |-> type, dim |-> dim, opts |-> opts, file |-> file]

\* etree.SubElement(xml, "Filter", ...), returned as the new cursor
SubElement(b, stage) == [b EXCEPT !.chain = Append(b.chain, stage)]

_xml_p2g_base(fsys, fout, output, radius, site) ==
    [writer |-> [type |-> "writers.p2g", filename |-> fout, radius |-> radius,
                 output |-> output, spatialreference |-> site],
     chain |-> << >>, readers |-> << >>, fs |-> fsys]

_xml_las_base(fsys, fout) ==
    [writer |-> [type |-> "writers.las", filename |-> fout, radius |-> "None",
                 output |-> << >>, spatialreference |-> "None"],
     chain |-> << >>, readers |-> << >>, fs |-> fsys]

_xml_add_pclblock(b, pclblock) ==
    SubElement(b, Stage("filters.pclblock", "", << >>, pclblock))

_xml_add_decimation_filter(b, step) ==
    SubElement(b, Stage("filters.decimation", "", <<<<"step", step>>>>, NoFile))

_xml_add_classification_filter(b, classification, equality) ==
    SubElement(b, Stage("filters.range", "Classification",
                        <<<<equality, classification>>>>, NoFile))

\* mkstemp + os.write + os.close: the JSON file stays on disk
_xml_add_maxsd_filter(b, thresh) ==
    LET fname == FreshTmp(b.fs, ".json")
    IN  _xml_add_pclblock([b EXCEPT !.fs = b.fs \cup {fname}], fname)

_xml_add_maxz_filter(b, maxz) ==
    SubElement(b, Stage("filters.range", "Z", <<<<"max", maxz>>>>, NoFile))

_xml_add_maxangle_filter(b, maxabsangle) ==
    SubElement(b, Stage("filters.range", "ScanAngleRank",
                        <<<<"max", maxabsangle>>, <<"min", str_neg_float(maxabsangle)>>>>, NoFile))

_xml_add_returnnum_filter(b, value) ==
    SubElement(b, Stage("filters.range", "ReturnNum", <<<<"equals", value>>>>, NoFile))

\* 'if value is not None: xml = add(xml, value)'
IfGiven(value, add(_, _), b) == IF value # "None" THEN add(b, value) ELSE b

_xml_add_filters(b, maxsd, maxz, maxangle, returnnum) ==
    IfGiven(returnnum, _xml_add_returnnum_filter,
        IfGiven(maxangle, _xml_add_maxangle_filter,
            IfGiven(maxz, _xml_add_maxz_filter,
                IfGiven(maxsd, _xml_add_maxsd_filter, b))))

_xml_add_crop_filter(b, wkt) ==
    SubElement(b, Stage("filters.crop", "", <<<<"polygon", wkt>>>>, NoFile))

\* the merge Filter exists only for more than one file; the Readers are the
\* children of the cursor
_xml_add_readers(b, filenames) ==
    [(IF Len(filenames) > 1
      THEN SubElement(b, Stage("filters.merge", "", << >>, NoFile))
      ELSE b) EXCEPT !.readers = filenames]

\* lines 288-290 of classify: the crop to the buffered site polygon
classify_crop(b, site) ==
    IF site # "None" THEN _xml_add_crop_filter(b, "buffered") ELSE b

\* lines 283-291 of classify: the pipeline that writes the merged temp file
classify_xml(fsys, ftmp, filenames, site, decimation) ==
    _xml_add_readers(
        classify_crop(
            IfGiven(decimation, _xml_add_decimation_filter, _xml_las_base(fsys, ftmp)),
            site),
        filenames)

\* lines 368-371 of create_dem: the filter on the classification
create_dem_classification(b, demtype) ==
    IF demtype = "dsm" THEN _xml_add_classification_filter(b, "1", "max")
    ELSE IF demtype = "dtm" THEN _xml_add_classification_filter(b, "2", "equals")
    ELSE b

create_dem_xml_decimate_inner(fsys, bname, filenames, demtype, radius, site, decimation, flt, products) ==
    _xml_add_readers(
        IfGiven(decimation, _xml_add_decimation_filter,
            create_dem_classification(
                _xml_add_filters(_xml_p2g_base(fsys, bname, products, radius, site),
                                 flt.maxsd, flt.maxz, flt.maxangle, flt.returnnum),
                demtype)),
        filenames)

\* lines 363-372 of create_dem: the gridding pipeline
create_dem_xml(fsys, bname, filenames, demtype, radius, site, decimation, flt, products) ==
    _xml_add_readers(
        create_dem_classification(
            _xml_add_filters(
                IfGiven(decimation, _xml_add_decimation_filter,
                        _xml_p2g_base(fsys, bname, products, radius, site)),
                flt.maxsd, flt.maxz, flt.maxangle, flt.returnnum),
            demtype),
        filenames)

\* The order in which the engine applies the stages to the points: an
\* element is fed by its children, so the innermost Filter runs first and
\* the Writer last.
AppliedOrder(b) == Reverse(b.chain)

----------------------------------------------------------------------------
(* Argument sets *)

FileLists == {<<"a.las">>, <<"a.las", "b.las">>}
Sites == {"None", "site"}
Decimations == {"None", "10"}
DemTypes == {"density", "dsm", "dtm"}
Filters == [maxsd : {"None", "3"}, maxz : {"None", "5"},
            maxangle : {"None", "10"}, returnnum : {"None", "1"}]
NoXml == [writer |-> [type |-> "none", filename |-> << >>, radius |-> "None",
                      output |-> << >>, spatialreference |-> "None"],
          chain |-> << >>, readers |-> << >>, fs |-> {}]


----------------------------------------------------------------------------
(* Run PDAL commands *)

\* run_pipeline: the serialized pipeline goes to a fresh temp file, the
\* engine runs once and leaves the files in produced (its exit status is
\* not read), the temp file is removed
run_pipeline(fsys, produced) ==
    LET xmlfile == FreshTmp(fsys, ".xml")
        written == fsys \cup {xmlfile}
        ran == written \cup produced
    IN  [fs |-> ran \ {xmlfile}, created |-> {xmlfile}, runs |-> 1]

\* run_pdalground: one run of 'pdal ground -i fin -o fout'; the engine
\* writes fout only when it succeeds, which needs its input file
run_pdalground(fsys, fin, fout, ok) ==
    IF ok /\ fin \in fsys THEN fsys \cup {fout} ELSE fsys

----------------------------------------------------------------------------
(* classify *)

DefaultSlope == "1"
DefaultCellsize == "3"

\* utils.class_params: the caller's values, or the defaults
class_params(site, slope, cellsize) ==
    <<IF slope # "None" THEN slope ELSE DefaultSlope,
      IF cellsize # "None" THEN cellsize ELSE DefaultCellsize>>

ClassifyArgs ==
    [filenames : FileLists, site : Sites, decimation : Decimations,
     sc : {<<"None", "None">>, <<"5", "2">>}]

\* lines 270-274: fout
classify_fout(a) ==
    LET sc == class_params(a.site, a.sc[1], a.sc[2])
    IN  LasFile(a.site, sc[1], sc[2], "")

classify_miss_always(fsys, fout) == TRUE

\* line 277: not os.path.exists(fout)
classify_miss(fsys, fout) == fout \notin fsys

classify_cleanup_always(fsys, ftmp, fout) == fsys \ {ftmp}

\* lines 298-299: the merged file is removed once the output exists
classify_cleanup(fsys, ftmp, fout) ==
    IF fout \in fsys THEN fsys \ {ftmp} ELSE fsys

\* lines 295-302: the ground run on the merged file, the cleanup and the
\* return, after the pipeline run r of the pipeline b
classify_ground(fsys, a, fout, ftmp, b, r, classified) ==
    [fs |-> classify_cleanup(run_pdalground(r.fs, ftmp, fout, classified), ftmp, fout),
     xml |-> b,
     call |-> [op |-> "classify", args |-> a, ret |-> fout,
               pipelineRuns |-> r.runs, groundRuns |-> 1,
               created |-> r.created \cup (r.fs \ fsys) \cup (b.fs \ fsys),
               ftmp |-> ftmp, merged |-> ftmp \in r.fs,
               exists |-> fout \in run_pdalground(r.fs, ftmp, fout, classified)]]

\* lines 283-292: the pipeline into the temp file ftmp and its run
classify_merge(fsys, a, fout, ftmp, b, merged, classified) ==
    classify_ground(fsys, a, fout, ftmp, b,
                    run_pipeline(b.fs, IF merged THEN {ftmp} ELSE {}), classified)

\* lines 277-302, with fout
classify_to(fsys, a, fout, ftmp, merged, classified) ==
    IF classify_miss(fsys, fout)
    THEN classify_merge(fsys, a, fout, ftmp,
                        classify_xml(fsys, Name(ftmp), a.filenames, a.site, a.decimation),
                        merged, classified)
    ELSE [fs |-> fsys,
          xml |-> NoXml,
          call |-> [op |-> "classify", args |-> a, ret |-> fout,
                    pipelineRuns |-> 0, groundRuns |-> 0, created |-> {},
                    ftmp |-> NoFile, merged |-> FALSE, exists |-> TRUE]]

\* classify: the disk and the call's record on return.  merged and
\* classified are the engine's two outcomes (did the pipeline run write the
\* temp file, did the ground run succeed).
classify(fsys, a, merged, classified) ==
    classify_to(fsys, a, classify_fout(a), FreshTmp(fsys, ".las"), merged, classified)

NoClassify ==
    [op |-> "none",
     args |-> [filenames |-> <<"a.las">>, site |-> "None", decimation |-> "None",
               sc |-> <<"None", "None">>],
     ret |-> NoFile, pipelineRuns |-> 0, groundRuns |-> 0, created |-> {},
     ftmp |-> NoFile, merged |-> FALSE, exists |-> FALSE]

TmpFiles(fsys) == {p \in fsys : p.t = "tmp"}


----------------------------------------------------------------------------
(* create_dem and create_dems *)

\* utils.dem_products
dem_products(demtype) ==
    CASE demtype = "density" -> <<"den">>
      [] demtype = "dsm" -> <<"den", "max">>
      [] demtype = "dtm" -> <<"den", "min", "max", "idw">>

NoProducts == <<"None">>

\* lines 349-350
create_dem_products(a) ==
    IF a.products = NoProducts THEN dem_products(a.demtype) ELSE a.products

\* line 351: fouts
create_dem_fouts(a, radius) ==
    [o \in Range(create_dem_products(a)) |-> DemFile(a.site, a.demtype, radius, "", o, "tif")]

\* f[:-3]
DropLast3(s) == SubSeq(s, 1, Len(s) - 3)

create_dem_run_all_missing(fsys, fouts) ==
    \A o \in DOMAIN fouts : Cardinality(Glob(fsys, DropLast3(Name(fouts[o])))) = 0

\* lines 355-358: run if any product has no file under any extension
create_dem_run(fsys, fouts) ==
    \E o \in DOMAIN fouts : Cardinality(Glob(fsys, DropLast3(Name(fouts[o])))) = 0

\* lines 373-376: the run of the pipeline b and the return
create_dem_ran(fsys, fouts, b, r) ==
    [fs |-> r.fs, xml |-> b, ret |-> fouts, runs |-> r.runs,
     requested |-> <<b.writer.output>>,
     created |-> r.created \cup (b.fs \ fsys)]

\* lines 355-376, with fouts
create_dem_to(fsys, a, radius, produced, fouts, b) ==
    IF create_dem_run(fsys, fouts)
    THEN create_dem_ran(fsys, fouts, b, run_pipeline(b.fs, produced \cap Range(fouts)))
    ELSE [fs |-> fsys, xml |-> NoXml, ret |-> fouts, runs |-> 0,
          requested |-> << >>, created |-> {}]

\* create_dem for one radius: the disk and the call's record on return.
\* produced is what the engine's run leaves on disk.
create_dem(fsys, a, radius, produced) ==
    create_dem_to(fsys, a, radius, produced, create_dem_fouts(a, radius),
                  create_dem_xml(fsys, DemBase(a.site, a.demtype, radius, ""),
                                 a.filenames, a.demtype, radius, a.site,
                                 a.decimation, a.flt, create_dem_products(a)))

\* line 309: fouts.append(create_dem(...))
create_dems_append(acc, d) ==
    [fs |-> d.fs, fouts |-> Append(acc.fouts, d.ret), runs |-> acc.runs + d.runs,
     requested |-> acc.requested \o d.requested,
     created |-> acc.created \cup d.created]

\* lines 307-309: one create_dem per radius, in the order of the list
create_dems_loop(fsys, a, radii, produced) ==
    LET acc[i \in 0..Len(radii)] ==
            IF i = 0
            THEN [fs |-> fsys, fouts |-> << >>, runs |-> 0, requested |-> << >>,
                  created |-> {}]
            ELSE create_dems_append(acc[i - 1],
                                    create_dem(acc[i - 1].fs, a, radii[i], produced))
    IN  acc[Len(radii)]

\* gap_fill as create_dems sees it: it raises when a raster of the stack
\* cannot be opened or the interpolation fails (filled = FALSE), and leaves
\* fout on disk otherwise (with a site: clipped, removed and renamed)
gap_fill_files(fsys, filenames, fout, site, filled) ==
    IF Range(filenames) \subseteq fsys /\ filled
    THEN [fs |-> fsys \cup {fout}, raised |-> FALSE]
    ELSE [fs |-> fsys, raised |-> TRUE]

create_dems_gap_always(fsys, fout) == TRUE

\* line 327: not os.path.exists(fout)
create_dems_gap(fsys, fout) == fout \notin fsys

\* line 328: the call of gap_fill, with its outcome g
create_dems_filled(acc, product, filenames, fout, g) ==
    [fs |-> g.fs,
     ret |-> IF g.raised THEN << >> ELSE Append(acc.ret, <<product, fout>>),
     calls |-> Append(acc.calls, [filenames |-> filenames, fout |-> fout]),
     raised |-> g.raised]

\* lines 320-329: one product; an exception of gap_fill has ended the call
create_dems_product(acc, a, product, filenames, fout, filled) ==
    IF acc.raised THEN acc
    ELSE IF product = "den" THEN [acc EXCEPT !.ret = Append(@, <<product, filenames[1]>>)]
    ELSE IF create_dems_gap(acc.fs, fout)
         THEN create_dems_filled(acc, product, filenames, fout,
                                 gap_fill_files(acc.fs, filenames, fout, a.site, filled))
         ELSE [acc EXCEPT !.ret = Append(@, <<product, fout>>)]

\* lines 318-329: the loop over the products, in the dictionary's order
create_dems_gapfill(fsys, a, order, fnames, filled) ==
    LET acc[i \in 0..Len(order)] ==
            IF i = 0
            THEN [fs |-> fsys, ret |-> << >>, calls |-> << >>, raised |-> FALSE]
            ELSE create_dems_product(acc[i - 1], a, order[i], fnames[order[i]],
                                     GapFile(a.site, a.demtype, "", order[i]),
                                     filled[order[i]])
    IN  acc[Len(order)]

\* lines 311-313: from the list of dictionaries to the dictionary of lists
create_dems_fnames(fouts) ==
    [o \in DOMAIN fouts[1] |-> [i \in 1..Len(fouts) |-> fouts[i][o]]]

\* lines 317-335: the result, from the loop l and the gap-filling g
create_dems_return(l, g) ==
    [fs |-> g.fs, ret |-> g.ret, runs |-> l.runs, requested |-> l.requested,
     created |-> l.created, calls |-> g.calls, raised |-> g.raised]

\* lines 330-333: without gap-filling every product is its first-radius path
create_dems_first(fsys, order, fnames) ==
    [fs |-> fsys, ret |-> [i \in 1..Len(order) |-> <<order[i], fnames[order[i]][1]>>],
     calls |-> << >>, raised |-> FALSE]

\* lines 310-335, after the loop l over the radii
create_dems_products(l, a, order, filled) ==
    create_dems_return(l,
        IF a.gapfill
        THEN create_dems_gapfill(l.fs, a, order, create_dems_fnames(l.fouts), filled)
        ELSE create_dems_first(l.fs, order, create_dems_fnames(l.fouts)))

\* create_dems: ret is the returned dictionary as a sequence of
\* <<product, path>> pairs
create_dems(fsys, a, produced, order, filled) ==
    create_dems_products(create_dems_loop(fsys, a, a.radius, produced), a, order, filled)

----------------------------------------------------------------------------
(* Rasters *)

\* imgs[0][0].NoDataValue() / dtm_img[0].NoDataValue()
NoData == -9999

Cells == (1..1) \X (1..NCols)
Radii == {"0.56", "2", "10"}

\* the valid cells of the raster gridded with a radius hold this value
Elevation(radius) == CASE radius = "0.56" -> 11 [] radius = "2" -> 12 [] radius = "10" -> 13

\* the raster files of a stack: one product of one DEM type, one per radius
StackFile(radius) == DemFile("None", "dtm", radius, "", "idw", "tif")

----------------------------------------------------------------------------
(* gap_fill *)

\* list.insert of sorted(): f goes before the first element that is not
\* smaller than it
RECURSIVE SortedInsert(_, _)
SortedInsert(f, s) ==
    IF s = << >> THEN <<f>>
    ELSE IF StrLess(Name(Head(s)), Name(f)) THEN <<Head(s)>> \o SortedInsert(f, Tail(s))
    ELSE <<f>> \o s

\* line 401: sorted(filenames), the order of Python's string comparison
RECURSIVE sorted(_)
sorted(filenames) ==
    IF filenames = << >> THEN << >>
    ELSE SortedInsert(Head(filenames), sorted(Tail(filenames)))

\* lines 404-408: the first raster, then every later raster into the cells
\* that are still nodata
RECURSIVE gap_fill_stack(_, _)
gap_fill_stack(arr, imgs) ==
    IF imgs = << >> THEN arr
    ELSE gap_fill_stack([c \in Cells |-> IF arr[c] = NoData THEN Head(imgs)[c] ELSE arr[c]],
                        Tail(imgs))

Dist2(c, g) == (c[1] - g[1]) * (c[1] - g[1]) + (c[2] - g[2]) * (c[2] - g[2])

gap_fill_interpolate_skip(arr) == {arr}

\* lines 411-413: griddata(..., method='nearest'): every bad cell takes the
\* value of a good cell at the smallest distance (which one, among several
\* at that distance, is the solver's choice); without a good cell the call
\* has no defined result
gap_fill_interpolate(arr) ==
    LET good == {c \in Cells : arr[c] # NoData}
        nearest(c) == {g \in good : \A h \in good : Dist2(c, g) <= Dist2(c, h)}
    IN  {a \in [Cells -> {arr[g] : g \in good}] :
            \A c \in Cells : IF c \in good THEN a[c] = arr[c]
                             ELSE \E g \in nearest(c) : a[c] = arr[g]}

Absent == [exists |-> FALSE, arr |-> [c \in Cells |-> NoData], clipped |-> FALSE]
Raster(arr, clipped) == [exists |-> TRUE, arr |-> arr, clipped |-> clipped]

\* CookieCutter: the raster cut to the site, nodata outside of it
CookieCutter(arr, inside) == [c \in Cells |-> IF c \in inside THEN arr[c] ELSE NoData]

----------------------------------------------------------------------------
(* create_chm *)

ChmCells == (1..2) \X (1..2)

\* lines 384-388: DSM - DTM, and the DTM's nodata value where the DSM
\* holds it
create_chm(dtm, dsm) ==
    LET nodata == NoData
        arr == [c \in ChmCells |-> dsm[c] - dtm[c]]
    IN  [c \in ChmCells |-> IF dsm[c] = nodata THEN nodata ELSE arr[c]]


----------------------------------------------------------------------------
(* Idle values of the variables a specification does not use *)

NoDem ==
    [op |-> "none",
     args |-> [site |-> "None", demtype |-> "dsm", products |-> NoProducts,
               maxsd |-> "None", radius |-> << >>, gapfill |-> FALSE],
     ret |-> {}, runs |-> 0, requested |-> << >>, created |-> {},
     calls |-> << >>, raised |-> FALSE]

NoGap == [radius |-> << >>, imgs |-> << >>, site |-> "None", inside |-> {}]
NoArr == [c \in Cells |-> NoData]
NoDisk == [out |-> Absent, clip |-> Absent]
NoChm == [dtm |-> [c \in ChmCells |-> NoData], dsm |-> [c \in ChmCells |-> NoData],
          out |-> [c \in ChmCells |-> NoData], done |-> FALSE]

PipeIdle == xml = NoXml
ClassifyIdle == cfs = {} /\ clast = NoClassify /\ cprev = NoClassify
DemIdle == dfs = {} /\ dlast = NoDem
GapIdle == gin = NoGap /\ gpc = "idle" /\ garr = NoArr /\ gdisk = NoDisk
ChmIdle == chm = NoChm

----------------------------------------------------------------------------
(* Pipeline construction on its own *)

BuildClassify ==
    \E filenames \in FileLists, site \in Sites, decimation \in Decimations :
        xml' = classify_xml({}, Name(TmpFile(1, ".las")), filenames, site, decimation)

BuildDem ==
    \E filenames \in FileLists, site \in Sites, decimation \in Decimations,
       demtype \in DemTypes, radius \in {"0.56"}, flt \in Filters :
        xml' = create_dem_xml({}, DemBase(site, demtype, radius, ""), filenames,
                              demtype, radius, site, decimation, flt,
                              dem_products(demtype))

InitPipe == PipeIdle /\ ClassifyIdle /\ DemIdle /\ GapIdle /\ ChmIdle

NextPipe ==
    \/ BuildClassify /\ UNCHANGED <<cfs, clast, cprev, dfs, dlast, gin, gpc, garr, gdisk, chm>>
    \/ BuildDem /\ UNCHANGED <<cfs, clast, cprev, dfs, dlast, gin, gpc, garr, gdisk, chm>>

SpecPipe == InitPipe /\ [][NextPipe]_vars

----------------------------------------------------------------------------
(* Successive calls of classify on one output directory *)

Classify ==
    \E a \in ClassifyArgs, merged \in BOOLEAN, classified \in BOOLEAN :
        /\ classify_miss(cfs, classify_fout(a)) => Cardinality(TmpFiles(cfs)) < MaxLeak
        /\ \E r \in {classify(cfs, a, merged, classified)} :
               /\ cfs' = r.fs
               /\ clast' = r.call
               /\ cprev' = clast

InitClassify == PipeIdle /\ ClassifyIdle /\ DemIdle /\ GapIdle /\ ChmIdle

NextClassify ==
    Classify /\ UNCHANGED <<xml, dfs, dlast, gin, gpc, garr, gdisk, chm>>

SpecClassify == InitClassify /\ [][NextClassify]_vars

----------------------------------------------------------------------------------------------------------------------------------------
(* Successive calls of create_dem for one site and DEM type on one output  *)
(* directory                                                               *)

DemRadii == {"2", "10"}
DemFilters == {f \in Filters : f.maxz = "None" /\ f.maxangle = "None" /\ f.returnnum = "None"}

DemCall(a, radius, gapfill) ==
    [site |-> a.site, demtype |-> a.demtype, products |-> a.products,
     maxsd |-> a.flt.maxsd, radius |-> radius, gapfill |-> gapfill]

DemArgs(site, demtype, products) ==
    [filenames : {<<"a.las", "b.las">>}, site : {site}, demtype : {demtype},
     decimation : {"None"}, flt : DemFilters, products : products]

Outputs(a, radii) ==
    UNION {Range(create_dem_fouts(a, r)) : r \in radii}

Pairs(f) == {<<o, f[o]>> : o \in DOMAIN f}

CreateDem ==
    \E a \in DemArgs(dlast.args.site, dlast.args.demtype, {NoProducts, <<"max">>}),
       radius \in DemRadii :
    \E produced \in SUBSET Outputs(a, {radius}) :
        /\ dlast.op \in {"session", "create_dem"}
        /\ a.flt.maxsd # "None" => Cardinality(TmpFiles(dfs)) < MaxLeak
        /\ \E d \in {create_dem(dfs, a, radius, produced)} :
               /\ dfs' = d.fs
               /\ dlast' = [op |-> "create_dem", args |-> DemCall(a, <<radius>>, FALSE),
                            ret |-> Pairs(d.ret), runs |-> d.runs,
                            requested |-> d.requested, created |-> d.created,
                            calls |-> << >>, raised |-> FALSE]

\* the files of other extensions that an earlier session may have left
Preexisting(site, demtype) ==
    {DemFile(site, demtype, "2", "", o, "vrt") : o \in Range(dem_products(demtype))}

InitDem ==
    /\ PipeIdle /\ ClassifyIdle /\ GapIdle /\ ChmIdle
    /\ \E site \in Sites, demtype \in {"density", "dsm"} :
        /\ dlast = [NoDem EXCEPT !.op = "session", !.args.site = site,
                                 !.args.demtype = demtype]
        /\ dfs \in SUBSET Preexisting(site, demtype)

NextDem ==
    CreateDem /\ UNCHANGED <<xml, cfs, clast, cprev, gin, gpc, garr, gdisk, chm>>

SpecDem == InitDem /\ [][NextDem]_vars

----------------------------------------------------------------------------
(* One call of create_dems on an output directory that holds any of the    *)
(* files earlier calls can have left                                       *)

RadiusLists ==
    {<<r>> : r \in DemRadii} \cup {<<r, q>> : <<r, q>> \in {x \in DemRadii \X DemRadii : x[1] # x[2]}}

Perms(s) ==
    {p \in [1..Len(s) -> Range(s)] : \A i, j \in 1..Len(s) : p[i] = p[j] => i = j}

\* the products create_dems can hand to gap_fill
GapProducts(a) == Range(create_dem_products(a)) \ {"den"}

CreateDems ==
    \E a \in {x \in DemArgs(dlast.args.site, dlast.args.demtype,
                             {NoProducts, <<"min", "max">>}) : x.flt.maxsd = "None"},
       radius \in RadiusLists, gapfill \in BOOLEAN :
    \E produced \in SUBSET Outputs(a, Range(radius)),
       order \in IF gapfill THEN Perms(create_dem_products(a)) ELSE {create_dem_products(a)},
       unfilled \in IF gapfill THEN SUBSET GapProducts(a) ELSE {{}} :
        /\ dlast.op = "ready"
        /\ \E d \in {create_dems(dfs, a @@ [radius |-> radius, gapfill |-> gapfill],
                                 produced, order,
                                 [o \in Range(create_dem_products(a)) |-> o \notin unfilled])} :
               /\ dfs' = d.fs
               /\ dlast' = [op |-> "create_dems", args |-> DemCall(a, radius, gapfill),
                            ret |-> Range(d.ret), runs |-> d.runs,
                            requested |-> d.requested, created |-> d.created,
                            calls |-> d.calls, raised |-> d.raised]

OnDisk(site, demtype) ==
    {DemFile(site, demtype, r, "", o, "tif") : r \in DemRadii, o \in {"den", "min", "max"}}
        \cup {GapFile(site, demtype, "", o) : o \in {"min", "max"}}

InitDems ==
    /\ PipeIdle /\ ClassifyIdle /\ GapIdle /\ ChmIdle
    /\ \E site \in Sites :
        /\ dlast = [NoDem EXCEPT !.op = "ready", !.args.site = site, !.args.demtype = "dsm"]
        /\ dfs \in SUBSET OnDisk(site, "dsm")

NextDems ==
    CreateDems /\ UNCHANGED <<xml, cfs, clast, cprev, gin, gpc, garr, gdisk, chm>>

SpecDems == InitDems /\ [][NextDems]_vars


----------------------------------------------------------------------------
(* One call of gap_fill, statement by statement from the write on *)

\* the stacks: rasters of distinct radii, in any order
Stacks ==
    UNION {{s \in [1..n -> Radii] : \A i, j \in 1..n : s[i] = s[j] => i = j} : n \in 1..MaxStack}

\* the cells inside the site's polygon
Insides == {Cells, Cells \ {<<1, NCols>>}}

InitGap ==
    /\ PipeIdle /\ ClassifyIdle /\ DemIdle /\ ChmIdle
    /\ \E radius \in Stacks :
        \E valid \in [Range(radius) -> SUBSET Cells] :
        \E site \in Sites, inside \in Insides :
            /\ site = "None" => inside = Cells
            /\ gin = [radius |-> radius,
                      imgs |-> [r \in Range(radius) |->
                                   [c \in Cells |-> IF c \in valid[r] THEN Elevation(r)
                                                    ELSE NoData]],
                      site |-> site, inside |-> inside]
    /\ gpc = "start"
    /\ garr = NoArr
    /\ gdisk = NoDisk

\* lines 401-408: the working buffer after the loop over the sorted stack
gap_fill_arr(filenames, imgs) ==
    LET files == sorted(filenames)
        read == [i \in 1..Len(files) |-> imgs[files[i].radius]]
    IN  gap_fill_stack(read[1], Tail(read))

\* lines 398-420: sort, stack, interpolate and write the output raster
GapFillWrite ==
    /\ gpc = "start"
    /\ \E arr \in {gap_fill_arr([i \in 1..Len(gin.radius) |-> StackFile(gin.radius[i])],
                                gin.imgs)} :
        IF \E c \in Cells : arr[c] # NoData
        THEN \E a \in gap_fill_interpolate(arr) :
                /\ garr' = a
                /\ gdisk' = [gdisk EXCEPT !.out = Raster(a, FALSE)]
                /\ gpc' = IF gin.site # "None" THEN "written" ELSE "done"
        ELSE \/ gpc' = "raised" /\ UNCHANGED <<garr, gdisk>>
             \/ /\ garr' = arr
                /\ gdisk' = [gdisk EXCEPT !.out = Raster(arr, FALSE)]
                /\ gpc' = IF gin.site # "None" THEN "written" ELSE "done"
    /\ UNCHANGED gin

\* lines 426-431: the clipped raster goes to the _clip path
GapFillClip ==
    /\ gpc = "written"
    /\ gdisk' = [gdisk EXCEPT !.clip = Raster(CookieCutter(gdisk.out.arr, gin.inside), TRUE)]
    /\ gpc' = "clipped"
    /\ UNCHANGED <<gin, garr>>

\* lines 432-433: os.remove(fout)
GapFillRemove ==
    /\ gpc = "clipped"
    /\ IF gdisk.out.exists
       THEN gdisk' = [gdisk EXCEPT !.out = Absent] /\ gpc' = "removed"
       ELSE gdisk' = gdisk /\ gpc' = "done"
    /\ UNCHANGED <<gin, garr>>

\* line 434: os.rename(_fout, fout)
GapFillRename ==
    /\ gpc = "removed"
    /\ gdisk' = [out |-> gdisk.clip, clip |-> Absent]
    /\ gpc' = "done"
    /\ UNCHANGED <<gin, garr>>

NextGap ==
    \/ GapFillWrite /\ UNCHANGED <<xml, cfs, clast, cprev, dfs, dlast, chm>>
    \/ GapFillClip /\ UNCHANGED <<xml, cfs, clast, cprev, dfs, dlast, chm>>
    \/ GapFillRemove /\ UNCHANGED <<xml, cfs, clast, cprev, dfs, dlast, chm>>
    \/ GapFillRename /\ UNCHANGED <<xml, cfs, clast, cprev, dfs, dlast, chm>>

SpecGap == InitGap /\ [][NextGap]_vars

----------------------------------------------------------------------------
(* One call of create_chm *)

DtmValues == {10, NoData}
DsmValues == {8, 12, 15, 20, NoData}

InitChm ==
    /\ PipeIdle /\ ClassifyIdle /\ DemIdle /\ GapIdle
    /\ \E dtm \in [ChmCells -> DtmValues], dsm \in [ChmCells -> DsmValues] :
        chm = [dtm |-> dtm, dsm |-> dsm, out |-> [c \in ChmCells |-> NoData], done |-> FALSE]

CreateChm ==
    /\ ~chm.done
    /\ chm' = [chm EXCEPT !.out = create_chm(chm.dtm, chm.dsm), !.done = TRUE]

NextChm ==
    CreateChm /\ UNCHANGED <<xml, cfs, clast, cprev, dfs, dlast, gin, gpc, garr, gdisk>>

SpecChm == InitChm /\ [][NextChm]_vars


----------------------------------------------------------------------------
(* Properties of the pipeline construction *)

IsFilter(st) == st.type \in {"filters.pclblock", "filters.range"}

\* the place of a stage in merge -> crop -> decimate -> filters
RankDecimateFirst(st) ==
    CASE st.type = "filters.merge" -> 1
      [] st.type = "filters.crop" -> 2
      [] st.type = "filters.decimation" -> 3
      [] IsFilter(st) -> 4

\* the place of a stage in merge -> crop -> filters -> decimate
RankDecimateLast(st) ==
    CASE st.type = "filters.merge" -> 1
      [] st.type = "filters.crop" -> 2
      [] IsFilter(st) -> 3
      [] st.type = "filters.decimation" -> 4

\* C1 as stated: in every pipeline built by classify and create_dem the
\* stages are applied in the order merge -> crop -> decimate -> outlier /
\* range / classification filters -> write, so a decimation stage is
\* applied before every filter.
C1_DecimateBeforeFilters ==
    LET o == AppliedOrder(xml)
    IN  \A i, j \in 1..Len(o) : i < j => RankDecimateFirst(o[i]) <= RankDecimateFirst(o[j])

\* C1 amended: the stages are applied in the order merge -> crop -> outlier
\* / range / classification filters -> decimate -> write: a decimation
\* stage is applied after merge, crop and every filter, as the last stage
\* before the writer.
C1_DecimateAfterFilters ==
    LET o == AppliedOrder(xml)
    IN  /\ \A i, j \in 1..Len(o) : i < j => RankDecimateLast(o[i]) <= RankDecimateLast(o[j])
        /\ \A i \in 1..Len(o) : o[i].type = "filters.decimation" => i = Len(o)

\* a gridding pipeline with a merge, a decimation and three filters
C1_Witness ==
    /\ xml.writer.type = "writers.p2g"
    /\ \E i \in 1..Len(xml.chain) : xml.chain[i].type = "filters.decimation"
    /\ \E i \in 1..Len(xml.chain) : xml.chain[i].type = "filters.merge"
    /\ Cardinality({i \in 1..Len(xml.chain) : IsFilter(xml.chain[i])}) >= 3

----------------------------------------------------------------------------
(* Properties of classify *)

SameCallTwice ==
    clast.op = "classify" /\ cprev.op = "classify" /\ clast.args = cprev.args

NoWork(call) == call.pipelineRuns = 0 /\ call.groundRuns = 0 /\ call.created = {}

\* C4 as stated: of two successive calls of classify with identical
\* parameters the second returns the same path and does no work: no engine
\* run and no temporary file.
C4_SecondCallNoWork ==
    SameCallTwice => clast.ret = cprev.ret /\ NoWork(clast)

\* C4 amended: two successive calls with identical parameters return the
\* same path; the second does no work when the output file exists on the
\* return of the first, and runs both engine steps again when it does not.
C4_SecondCallNoWorkOnceProduced ==
    SameCallTwice =>
        /\ clast.ret = cprev.ret
        /\ cprev.exists => NoWork(clast)
        /\ ~cprev.exists => clast.pipelineRuns = 1 /\ clast.groundRuns = 1

\* a first call that ran the engine and produced the output, then a second
\* one with the same parameters
C4_Witness ==
    SameCallTwice /\ cprev.pipelineRuns = 1 /\ cprev.exists /\ clast.pipelineRuns = 0

\* C10: on a cache miss classify returns the deterministic output path,
\* the merged temp file is gone when the output exists, and it is left on
\* disk when the ground step did not produce the output.
C10_TempRemovedIffOutput ==
    (clast.op = "classify" /\ clast.pipelineRuns = 1) =>
        /\ clast.ret = LasFile(clast.args.site,
                               IF clast.args.sc[1] = "None" THEN DefaultSlope
                               ELSE clast.args.sc[1],
                               IF clast.args.sc[2] = "None" THEN DefaultCellsize
                               ELSE clast.args.sc[2], "")
        /\ clast.ret \in cfs => clast.ftmp \notin cfs
        /\ (clast.ret \notin cfs /\ clast.merged) => clast.ftmp \in cfs

\* a miss whose pipeline run wrote the merged file and whose ground run
\* produced nothing
C10_Witness ==
    /\ clast.op = "classify" /\ clast.pipelineRuns = 1 /\ clast.merged
    /\ clast.ret \notin cfs /\ clast.ftmp \in cfs

\* a miss that produced the output
C10_WitnessProduced ==
    /\ clast.op = "classify" /\ clast.pipelineRuns = 1 /\ clast.merged
    /\ clast.ret \in cfs /\ clast.ftmp \notin cfs


----------------------------------------------------------------------------
(* Properties of create_dem *)

\* a product of the call has a file on disk, under any extension
HasProduct(fsys, a, o) ==
    \E p \in fsys : /\ p.t = "dem" /\ p.site = a.site /\ p.demtype = a.demtype
                    /\ p.radius = a.radius[1] /\ p.product = o

Keys(ret) == {pr[1] : pr \in ret}

\* C5: a call of create_dem runs the engine zero times when every expected
\* product has a file under some extension, and otherwise exactly once,
\* with a pipeline that writes the whole product set.
C5_SkipIffEveryProductExists ==
    [][dlast'.op = "create_dem" =>
          LET a == dlast'.args
              expected == Keys(dlast'.ret)
              all == \A o \in expected : HasProduct(dfs, a, o)
          IN  /\ all => dlast'.runs = 0 /\ dlast'.requested = << >>
              /\ ~all => /\ dlast'.runs = 1
                         /\ Len(dlast'.requested) = 1
                         /\ Range(dlast'.requested[1]) = expected]_vars

\* a run that was forced although one product had a file, under the vrt
\* extension, and that left the other product without any file
C5_Witness ==
    /\ dlast.op = "create_dem" /\ dlast.runs = 1
    /\ \E o \in Keys(dlast.ret) :
           /\ HasProduct(dfs, dlast.args, o)
           /\ \A p \in dfs : (p.t = "dem" /\ p.product = o /\ p.radius = dlast.args.radius[1])
                                => p.ext = "vrt"
    /\ \E o \in Keys(dlast.ret) : ~HasProduct(dfs, dlast.args, o)

\* C8 as stated: building the pipeline touches no file, and the only temp
\* file of a create_dem call is the pipeline file, which is gone on return:
\* no temp file created by the call is on disk after it.
C8_NoTempFileLeft ==
    dlast.op = "create_dem" => dlast.created \cap dfs = {}

----------------------------------------------------------------------------
(* Properties of create_dems *)

\* the per-radius rasters of a product, in the order of the radius list
PerRadius(a, o) ==
    [i \in 1..Len(a.radius) |-> DemFile(a.site, a.demtype, a.radius[i], "", o, "tif")]

PassedToGapFill(call, o) ==
    \E i \in 1..Len(call.calls) :
        /\ call.calls[i].filenames = PerRadius(call.args, o)
        /\ call.calls[i].fout = GapFile(call.args.site, call.args.demtype, "", o)

DensityKept(call) ==
    /\ \A i \in 1..Len(call.calls) :
           \A k \in 1..Len(call.calls[i].filenames) :
               call.calls[i].filenames[k].product # "den"
    /\ \A pr \in call.ret : pr[1] = "den" => pr[2] = PerRadius(call.args, "den")[1]

GapFilledCall(call) == call.op = "create_dems" /\ call.args.gapfill /\ ~call.raised

\* C6 as stated: a create_dems call with gap-filling passes every product
\* but density to gap_fill as the list of its per-radius rasters; density is
\* never passed and is reported as its first-radius path.
C6_EveryProductPassed ==
    GapFilledCall(dlast) =>
        /\ \A o \in Keys(dlast.ret) \ {"den"} : PassedToGapFill(dlast, o)
        /\ DensityKept(dlast)

\* C6 amended: a create_dems call with gap-filling that returns passes to
\* gap_fill, as the list of its per-radius rasters, every product but
\* density whose gap-filled output file does not exist yet; a product whose
\* gap-filled output exists is not passed and is reported as that file;
\* density is never passed and is reported as its first-radius path.
C6_MissingProductsPassed ==
    [][GapFilledCall(dlast') =>
          /\ \A o \in Keys(dlast'.ret) \ {"den"} :
                LET fout == GapFile(dlast'.args.site, dlast'.args.demtype, "", o)
                IN  /\ PassedToGapFill(dlast', o) <=> fout \notin dfs
                    /\ <<o, fout>> \in dlast'.ret
          /\ Len(dlast'.calls) <= Cardinality(Keys(dlast'.ret) \ {"den"})
          /\ DensityKept(dlast')]_vars

\* a call over two radii that returned, gap-filled one product and found
\* the gap-filled output of the other
C6_Witness ==
    /\ GapFilledCall(dlast) /\ Len(dlast.args.radius) = 2
    /\ Len(dlast.calls) = 1 /\ Cardinality(Keys(dlast.ret) \ {"den"}) = 2

\* a call with density among its products that gap-filled the other one
C6_WitnessDensity ==
    /\ GapFilledCall(dlast) /\ "den" \in Keys(dlast.ret) /\ Len(dlast.calls) = 1

----------------------------------------------------------------------------
(* Properties of gap_fill *)

\* float(radius) in hundredths
RECURSIVE Digits(_, _)
Digits(s, acc) == IF s = << >> THEN acc ELSE Digits(Tail(s), 10 * acc + (Head(s) - 48))

RadiusHundredths(radius) ==
    LET s == Chars(radius)
        dot == {i \in 1..Len(s) : s[i] = 46}
    IN  IF dot = {} THEN 100 * Digits(s, 0)
        ELSE LET d == CHOOSE i \in dot : TRUE
                 frac == SubSeq(s, d + 1, Len(s))
             IN  100 * Digits(SubSeq(s, 1, d - 1), 0)
                    + (IF Len(frac) = 1 THEN 10 * Digits(frac, 0) ELSE Digits(SubSeq(frac, 1, 2), 0))

Written == gpc \in {"written", "clipped", "removed", "done"}

ValidAt(c) == {r \in Range(gin.radius) : gin.imgs[r][c] # NoData}

\* C2 as stated: whatever the order of the stack, every cell that is valid
\* in some raster gets the value of the smallest-radius raster valid there.
C2_SmallestRadiusWins ==
    Written =>
        \A c \in Cells :
            ValidAt(c) # {} =>
                \E r \in ValidAt(c) :
                    /\ \A q \in ValidAt(c) : RadiusHundredths(r) <= RadiusHundredths(q)
                    /\ garr[c] = gin.imgs[r][c]

\* C7: with nearest interpolation and a stack that holds a valid cell, the
\* raster gap_fill writes has no nodata cell; a cell of the written raster
\* is nodata only when the whole stack is nodata.
C7_NoNoDataLeft ==
    Written =>
        /\ (\E c \in Cells : ValidAt(c) # {}) => \A c \in Cells : garr[c] # NoData
        /\ \A c \in Cells : garr[c] = NoData => \A d \in Cells : ValidAt(d) = {}
        /\ gpc # "removed" => \/ gdisk.out.arr = garr
                              \/ gdisk.out.clipped

\* a written raster with a cell that no raster of the stack had
C7_Witness ==
    /\ Written
    /\ \E c \in Cells : ValidAt(c) = {} /\ garr[c] # NoData
    /\ Len(gin.radius) = 2

\* C9 as stated: with a site, from the write of the unclipped raster to the
\* return the output path always holds the unclipped or the clipped raster,
\* and on return the clipped one, with the _clip path gone.
C9_OutputAlwaysThere ==
    /\ (gin.site # "None" /\ Written) => gdisk.out.exists
    /\ (gin.site # "None" /\ gpc = "done") => gdisk.out.clipped /\ ~gdisk.clip.exists

----------------------------------------------------------------------------
(* Properties of create_chm *)

\* the rasters of the scenario, row by row
ScenarioDtm == (<<1, 1>> :> 10) @@ (<<1, 2>> :> 10) @@ (<<2, 1>> :> 10) @@ (<<2, 2>> :> NoData)
ScenarioDsm == (<<1, 1>> :> 15) @@ (<<1, 2>> :> 12) @@ (<<2, 1>> :> 20) @@ (<<2, 2>> :> 8)
ScenarioChm == (<<1, 1>> :> 5) @@ (<<1, 2>> :> 2) @@ (<<2, 1>> :> 10) @@ (<<2, 2>> :> NoData)

\* C3 as stated: for the DTM and DSM of the scenario create_chm yields
\* [[5, 2], [10, nodata]]: nodata where the DTM is nodata, DSM - DTM in every
\* other cell.
C3_ChmScenario ==
    (chm.done /\ chm.dtm = ScenarioDtm /\ chm.dsm = ScenarioDsm) =>
        /\ chm.out = ScenarioChm
        /\ \A c \in ChmCells : chm.out[c] = IF chm.dtm[c] = NoData THEN NoData
                                            ELSE chm.dsm[c] - chm.dtm[c]


====
